---- MODULE Spec2Model ----
(***************************************************************************)
(* kiprec: preference-based course ranking and filter-split selection.     *)
(*                                                                         *)
(* Python floats are modelled as exact rationals <<n, d>> (d > 0, reduced) *)
(* plus the two IEEE values the code can produce: NaN and +inf.            *)
(* Python dicts are insertion ordered: the preferences dict is a sequence  *)
(* of [key, value] entries with distinct keys; a course's features dict is *)
(* a function whose DOMAIN is the set of keys it holds.                    *)
(* Python list indices are kept 0-based where the code returns them        *)
(* (split_index), -1 being the code's "no split" value.                    *)
(***************************************************************************)
EXTENDS Integers, Sequences, FiniteSets, TLC

VARIABLES
    recommender,     \* the class of the instance
    model,           \* self.model: None, or the dict train() stored
    preferences,     \* the caller's preferences dict object
    applied_filters, \* the caller's active_filters dict object, or None
    result,          \* outcome of the last call on the recommender
    prev,            \* outcome of the call before it
    arg,             \* arguments of a direct call of one of the helper methods
    ret              \* what that helper call returned

vars == <<recommender, model, preferences, applied_filters, result, prev, arg, ret>>


(***************************************************************************)
(* Bounds of the model.                                                    *)
(***************************************************************************)
MaxCourses == 2      \* courses in a catalogue handed to train()
MaxEnrolments == 1   \* enrolments in the enrollment data handed to train()
MaxItems == 3        \* items in a list handed directly to a helper method

(***************************************************************************)
(* Floats.                                                                 *)
(***************************************************************************)
NaN == <<0, 0>>
Inf == <<1, 0>>

Abs(x) == IF x < 0 THEN -x ELSE x

RECURSIVE GCD(_, _)
GCD(a, b) == IF b = 0 THEN a ELSE GCD(b, a % b)

Rat(n, d) ==
    LET s == IF d < 0 THEN -1 ELSE 1
        g == GCD(Abs(n), Abs(d))
    IN  <<(s * n) \div g, (s * d) \div g>>

IsNum(x) == x[2] > 0

Zero == <<0, 1>>
One == <<1, 1>>
FromInt(k) == <<k, 1>>

\* the operations cancel common factors before they multiply
FAdd(x, y) ==
    IF ~IsNum(x) \/ ~IsNum(y) THEN NaN
    ELSE LET g == GCD(x[2], y[2]) IN
         Rat(x[1] * (y[2] \div g) + y[1] * (x[2] \div g), (x[2] \div g) * y[2])

FNeg(x) == IF IsNum(x) THEN <<-x[1], x[2]>> ELSE x

FSub(x, y) == FAdd(x, FNeg(y))

FMul(x, y) ==
    IF ~IsNum(x) \/ ~IsNum(y) THEN NaN
    ELSE LET g == GCD(Abs(x[1]), y[2])
             h == GCD(Abs(y[1]), x[2])
         IN  <<(x[1] \div g) * (y[1] \div h), (x[2] \div h) * (y[2] \div g)>>

\* numpy division: x / 0 is nan (0/0) or inf, never an exception
FDiv(x, y) ==
    IF ~IsNum(x) \/ ~IsNum(y) THEN NaN
    ELSE IF y[1] = 0 THEN (IF x[1] = 0 THEN NaN ELSE Inf)
    ELSE IF y[1] < 0 THEN FMul(x, <<-y[2], -y[1]>>)
    ELSE FMul(x, <<y[2], y[1]>>)

\* x < y on floats: every comparison with NaN is False
FLt(x, y) ==
    /\ x # NaN
    /\ y # NaN
    /\ x # Inf
    /\ \/ y = Inf
       \/ LET g == GCD(x[2], y[2]) IN
          x[1] * (y[2] \div g) < y[1] * (x[2] \div g)

FGt(x, y) == FLt(y, x)

RECURSIVE FSum(_)
FSum(s) == IF s = <<>> THEN Zero ELSE FAdd(Head(s), FSum(Tail(s)))

\* the literal 1e-3 of both thresholds
Epsilon == <<1, 1000>>

\* np.log(10) * 10 = 23.02585..., in thousandths
LambdaMilli == 23026
Lambda == Rat(LambdaMilli, 1000)

\* np.log(count + 1) in thousandths, for the counts the bounds reach
LogCountMilli(count) ==
    CASE count = 0 -> 0
      [] count = 1 -> 693
      [] count = 2 -> 1099
      [] OTHER -> 1386

NpLog1p(count) == Rat(LogCountMilli(count), 1000)

\* Python's int & int on non-negative ints
RECURSIVE BitAnd(_, _)
BitAnd(a, b) ==
    IF a = 0 \/ b = 0 THEN 0
    ELSE (a % 2) * (b % 2) + 2 * BitAnd(a \div 2, b \div 2)

(***************************************************************************)
(* Outcomes of a call: a returned value or a raised exception.             *)
(***************************************************************************)
NoError == "NoError"

Range(s) == {s[i] : i \in DOMAIN s}

(***************************************************************************)
(* PreferenceBasedRecommender.__filter_courses__                           *)
(* A filter is [name, value]; course['features'][name] raises KeyError     *)
(* when the course's features dict has no such key.                        *)
(***************************************************************************)
KeepMatching(courses, filter) ==
    SelectSeq(courses, LAMBDA course : course.features[filter.name] = filter.value)

\* variant: a return inside the loop, so only the first filter is applied
FilterCoursesFirstOnly(courses, filters) ==
    IF filters = <<>> THEN [err |-> NoError, val |-> courses]
    ELSE IF \E i \in DOMAIN courses : Head(filters).name \notin DOMAIN courses[i].features
    THEN [err |-> "KeyError", val |-> <<>>]
    ELSE [err |-> NoError, val |-> KeepMatching(courses, Head(filters))]

RECURSIVE FilterCourses(_, _)
FilterCourses(courses, filters) ==
    IF filters = <<>> THEN [err |-> NoError, val |-> courses]
    ELSE LET filter == Head(filters) IN
         IF \E i \in DOMAIN courses : filter.name \notin DOMAIN courses[i].features
         THEN [err |-> "KeyError", val |-> <<>>]
         ELSE FilterCourses(KeepMatching(courses, filter), Tail(filters))

(***************************************************************************)
(* Preference normalisation, shared by                                     *)
(* PreferenceBasedRecommender.__rank_courses__ and                         *)
(* TopicRecommender.recommend.                                             *)
(***************************************************************************)
PrefValues(prefs) == [i \in DOMAIN prefs |-> prefs[i].value]
PrefKeys(prefs) == {prefs[i].key : i \in DOMAIN prefs}

\* normalization = sum(preferences.values());
\* if normalization < 1e-3: normalization = 1/len(preferences)
Normalization(prefs) ==
    LET total == FSum(PrefValues(prefs)) IN
    IF FLt(total, Epsilon) THEN Rat(1, Len(prefs)) ELSE total

\* normalized_preferences = preferences, then update() of every key in place:
\* the value this returns is the new content of the caller's dict object
UpdateInPlace(prefs, normalization) ==
    [i \in DOMAIN prefs |->
        [key |-> prefs[i].key, value |-> FDiv(prefs[i].value, normalization)]]

Lookup(prefs, key) ==
    LET i == CHOOSE k \in DOMAIN prefs : prefs[k].key = key IN prefs[i].value

\* {key: normalized_preferences[key] for key in self.model['meta_categories']}
\* and list(normalized_preferences.values())
Reorder(prefs, meta_categories) ==
    [i \in DOMAIN meta_categories |-> Lookup(prefs, meta_categories[i])]

\* [err, preferences (the caller's dict afterwards), weights]
NormalizePreferences(prefs, meta_categories) ==
    IF FLt(FSum(PrefValues(prefs)), Epsilon) /\ Len(prefs) = 0
    THEN [err |-> "ZeroDivisionError", preferences |-> prefs, weights |-> <<>>]
    ELSE LET updated == UpdateInPlace(prefs, Normalization(prefs)) IN
         IF \E i \in DOMAIN meta_categories : meta_categories[i] \notin PrefKeys(prefs)
         THEN [err |-> "KeyError", preferences |-> updated, weights |-> <<>>]
         ELSE [err |-> NoError, preferences |-> updated,
               weights |-> Reorder(updated, meta_categories)]

(***************************************************************************)
(* Scoring and sorting.                                                    *)
(***************************************************************************)
CourseIds(courses) == [i \in DOMAIN courses |-> courses[i].course_id]

\* list.index: the first position holding the id
IndexOf(ids, id) == CHOOSE i \in DOMAIN ids :
    ids[i] = id /\ \A k \in 1..(i - 1) : ids[k] # id

\* crs['sim'] += sim[i] * list(normalized_preferences.values())[i]
RECURSIVE DotFrom(_, _, _)
DotFrom(sim, weights, i) ==
    IF i > Len(sim) THEN Zero
    ELSE FAdd(FMul(sim[i], weights[i]), DotFrom(sim, weights, i + 1))

Dot(sim, weights) == DotFrom(sim, weights, 1)

\* _LAMBDA_ * crs['sim'] + np.log(count + 1)
Score(sim, count) == FAdd(FMul(Lambda, sim), NpLog1p(count))

\* sorted(..., key=score, reverse=True): stable, highest first. An element
\* goes in front of the first one whose score is lower than its own.
InsertByScoreUnstable(sorted, x) ==
    LET lower == {i \in DOMAIN sorted : ~FLt(x.score, sorted[i].score)}
        at == IF lower = {} THEN Len(sorted) + 1
              ELSE CHOOSE i \in lower : \A k \in lower : i <= k
    IN  SubSeq(sorted, 1, at - 1) \o <<x>> \o SubSeq(sorted, at, Len(sorted))

\* sorted(ranked_courses, key=score, reverse=True), one element at a time:
\* x goes before the first element of a lower score, after its equals
InsertByScore(sorted, x) ==
    LET lower == {i \in DOMAIN sorted : FLt(sorted[i].score, x.score)}
        at == IF lower = {} THEN Len(sorted) + 1
              ELSE CHOOSE i \in lower : \A k \in lower : i <= k
    IN  SubSeq(sorted, 1, at - 1) \o <<x>> \o SubSeq(sorted, at, Len(sorted))

RECURSIVE SortFrom(_, _, _)
SortFrom(list, i, acc) ==
    IF i > Len(list) THEN acc
    ELSE SortFrom(list, i + 1, InsertByScore(acc, list[i]))

SortedByScore(list) == SortFrom(list, 1, <<>>)

\* one pass of the loop of __rank_courses__ over a course
RankedCourse(mdl, course, weights) ==
    LET ids == CourseIds(mdl.courses) IN
    IF course.course_id \notin Range(ids)
    THEN [course_id |-> course.course_id, features |-> course.features,
          sim |-> Zero, score |-> Zero]
    ELSE LET known == mdl.courses[IndexOf(ids, course.course_id)]
             sim == Dot(known.Sim, weights)
         IN  [course_id |-> course.course_id, features |-> course.features,
              sim |-> sim, score |-> Score(sim, known.count)]

\* PreferenceBasedRecommender.__rank_courses__:
\* [err, val (ranked courses), preferences (caller's dict afterwards), weights]
RankCourses(mdl, courses, prefs) ==
    LET norm == NormalizePreferences(prefs, mdl.meta_categories) IN
    IF norm.err # NoError
    THEN [err |-> norm.err, val |-> <<>>, preferences |-> norm.preferences,
          weights |-> <<>>]
    ELSE [err |-> NoError,
          val |-> SortedByScore([i \in DOMAIN courses |->
                                   RankedCourse(mdl, courses[i], norm.weights)]),
          preferences |-> norm.preferences,
          weights |-> norm.weights]

(***************************************************************************)
(* PreferenceBasedRecommender.__decision_tree_split__                      *)
(***************************************************************************)
Scores(courses) == [i \in DOMAIN courses |-> courses[i].score]

\* counts[value]: courses holding that value of the feature
Counts(courses, feature_name) ==
    [value \in {courses[i].features[feature_name] : i \in DOMAIN courses} |->
        Cardinality({i \in DOMAIN courses :
                        courses[i].features[feature_name] = value})]

\* counts[value] > 0 & counts[value] < len(courses): Python binds & tighter
\* than the comparisons, so this is the chain a > (0 & a) < len(courses)
NonTrivialTest(count, n) ==
    /\ count > BitAnd(0, count)
    /\ BitAnd(0, count) < n

NonTrivialChoice(courses, feature_name) ==
    LET counts == Counts(courses, feature_name) IN
    \E value \in DOMAIN counts : NonTrivialTest(counts[value], Len(courses))

CourseNumberAnyValue(courses, feature_name, i) ==
    Cardinality({k \in DOMAIN courses :
                    FGt(courses[k].score, courses[i].score)})

\* courses with the same value of the feature and a higher score
CourseNumber(courses, feature_name, i) ==
    Cardinality({k \in DOMAIN courses :
        /\ courses[k].features[feature_name] = courses[i].features[feature_name]
        /\ FGt(courses[k].score, courses[i].score)})

\* loss += score * course_number over the courses, then loss / sum_scores
Loss(courses, feature_name, sum_scores) ==
    FDiv(FSum([i \in DOMAIN courses |->
                 FMul(courses[i].score,
                      FromInt(CourseNumber(courses, feature_name, i)))]),
         sum_scores)

\* the for j in range(len(remaining_features)) loop, from index j (0-based)
RECURSIVE SplitLoop(_, _, _, _, _, _)
SplitLoop(courses, remaining_features, sum_scores, j, min_j, min_loss) ==
    IF j >= Len(remaining_features) THEN [err |-> NoError, val |-> min_j]
    ELSE LET feature_name == remaining_features[j + 1] IN
         IF \E i \in DOMAIN courses : feature_name \notin DOMAIN courses[i].features
         THEN [err |-> "KeyError", val |-> -1]
         ELSE IF ~NonTrivialChoice(courses, feature_name)
         THEN SplitLoop(courses, remaining_features, sum_scores, j + 1,
                        min_j, min_loss)
         ELSE LET loss == Loss(courses, feature_name, sum_scores) IN
              IF FLt(loss, min_loss)
              THEN SplitLoop(courses, remaining_features, sum_scores, j + 1,
                             j, loss)
              ELSE SplitLoop(courses, remaining_features, sum_scores, j + 1,
                             min_j, min_loss)

DecisionTreeSplitOneBased(courses, remaining_features) ==
    LET sum_scores == FSum(Scores(courses)) IN
    IF FLt(sum_scores, Epsilon) THEN [err |-> NoError, val |-> -1]
    ELSE SplitLoop(courses, remaining_features, sum_scores, 0, 0, Inf)

DecisionTreeSplitNoThreshold(courses, remaining_features) ==
    SplitLoop(courses, remaining_features, FSum(Scores(courses)), 0, -1, Inf)

\* [err, val]: val is the 0-based index into remaining_features, or -1
DecisionTreeSplit(courses, remaining_features) ==
    LET sum_scores == FSum(Scores(courses)) IN
    IF FLt(sum_scores, Epsilon) THEN [err |-> NoError, val |-> -1]
    ELSE SplitLoop(courses, remaining_features, sum_scores, 0, -1, Inf)

(***************************************************************************)
(* PreferenceBasedRecommender.train                                        *)
(* The sentence-transformer is outside the repository: what it returns,    *)
(* the three raw cosine-similarity matrices (one row per course, one       *)
(* column per meta category), is an input of train.                        *)
(* A course of course_data is [course_id, has_attributes, attributes].     *)
(***************************************************************************)
Untrained ==
    [trained |-> FALSE, meta_categories |-> <<>>, features |-> <<>>,
     courses |-> <<>>]

\* iteration order of the keys of an attributes dict
AttrOrder == <<"price", "type">>

FeatureNames(features) == [i \in DOMAIN features |-> features[i].name]

AddAttributeNoDefault(features, key, value) ==
    LET known == IF key \in Range(FeatureNames(features)) THEN features
                 ELSE Append(features, [name |-> key, values |-> <<>>])
        at == IndexOf(FeatureNames(known), key)
    IN  IF value \in Range(known[at].values) THEN known
        ELSE [known EXCEPT ![at].values = Append(@, value)]

\* one (key, value) item of a course's attributes
AddAttribute(features, key, value) ==
    LET known == IF key \in Range(FeatureNames(features)) THEN features
                 ELSE Append(features, [name |-> key, values |-> <<"All">>])
        at == IndexOf(FeatureNames(known), key)
    IN  IF value \in Range(known[at].values) THEN known
        ELSE [known EXCEPT ![at].values = Append(@, value)]

RECURSIVE AddAttributes(_, _, _)
AddAttributes(features, attributes, k) ==
    IF k > Len(AttrOrder) THEN features
    ELSE IF AttrOrder[k] \in DOMAIN attributes
    THEN AddAttributes(AddAttribute(features, AttrOrder[k],
                                    attributes[AttrOrder[k]]),
                       attributes, k + 1)
    ELSE AddAttributes(features, attributes, k + 1)

RECURSIVE BuildFeatures(_, _, _)
BuildFeatures(features, course_data, i) ==
    IF i > Len(course_data) THEN features
    ELSE IF course_data[i].has_attributes
    THEN BuildFeatures(AddAttributes(features, course_data[i].attributes, 1),
                       course_data, i + 1)
    ELSE BuildFeatures(features, course_data, i + 1)

Entries(matrix) == {matrix[i][k] : i \in DOMAIN matrix, k \in DOMAIN matrix[1]}

\* np.nanmin / np.nanmax over a matrix of numbers
MatrixMin(matrix) ==
    CHOOSE lo \in Entries(matrix) : \A v \in Entries(matrix) : ~FLt(v, lo)
MatrixMax(matrix) ==
    CHOOSE hi \in Entries(matrix) : \A v \in Entries(matrix) : ~FLt(hi, v)

\* Sims[k] = (Sims[k] - lo) / (hi - lo), elementwise in numpy
MinMaxScale(matrix) ==
    LET lo == MatrixMin(matrix)
        hi == MatrixMax(matrix)
    IN  [i \in DOMAIN matrix |-> [k \in DOMAIN matrix[i] |->
            FDiv(FSub(matrix[i][k], lo), FSub(hi, lo))]]

\* np.nanmax of three values: NaN only when all three are NaN
NanMax3(a, b, c) ==
    LET nums == {v \in {a, b, c} : v # NaN} IN
    IF nums = {} THEN NaN
    ELSE CHOOSE hi \in nums : \A v \in nums : ~FLt(hi, v)

Combine(A, B, C) ==
    [i \in DOMAIN A |-> [k \in DOMAIN A[i] |-> NanMax3(A[i][k], B[i][k], C[i][k])]]

\* counts[course_id] of the Counter over all enrolments; enrollment_data is
\* [given, ids], ids being the course ids of the enrolments in
\* order; not given stands for enrollment_data = None
CountOf(enrollment_data, course_id) ==
    IF ~enrollment_data.given THEN 0
    ELSE Cardinality({e \in DOMAIN enrollment_data.ids :
                         enrollment_data.ids[e] = course_id})

\* [err, model]: the value of self.model afterwards
Train(meta_categories, course_data, raw, enrollment_data) ==
    IF \E i \in DOMAIN course_data : ~course_data[i].has_attributes
    THEN [err |-> "KeyError", model |-> Untrained]
    ELSE LET S == Combine(MinMaxScale(raw.cat), MinMaxScale(raw.tag),
                          MinMaxScale(raw.name))
         IN  [err |-> NoError,
              model |->
                [trained |-> TRUE,
                 meta_categories |-> meta_categories,
                 features |-> BuildFeatures(<<>>, course_data, 1),
                 courses |-> [i \in DOMAIN course_data |->
                    [course_id |-> course_data[i].course_id,
                     Sim |-> S[i],
                     features |-> course_data[i].attributes,
                     count |-> CountOf(enrollment_data,
                                       course_data[i].course_id)]]]]

(***************************************************************************)
(* PreferenceBasedRecommender.recommend                                    *)
(* active_filters is [given, dict]; not given stands for None.             *)
(***************************************************************************)
HonoredByName(feature, active_filters) ==
    feature.name \in DOMAIN active_filters.dict

\* feature['name'] in active_filters and
\* active_filters[feature['name']] in feature['values']
Honored(feature, active_filters) ==
    /\ feature.name \in DOMAIN active_filters.dict
    /\ active_filters.dict[feature.name] \in Range(feature.values)

\* filters: the schema features whose active filter is honoured, in order
ResolvedFilters(features, active_filters) ==
    IF ~active_filters.given THEN <<>>
    ELSE LET kept == SelectSeq(features,
                        LAMBDA feature : Honored(feature, active_filters))
         IN  [i \in DOMAIN kept |->
                [name |-> kept[i].name,
                 value |-> active_filters.dict[kept[i].name]]]

RemainingFeatures(features, active_filters) ==
    IF ~active_filters.given THEN FeatureNames(features)
    ELSE FeatureNames(SelectSeq(features,
                        LAMBDA feature : ~Honored(feature, active_filters)))

NoReturn ==
    [filters |-> <<>>, remaining_features |-> <<>>, courses |-> <<>>,
     split_index |-> -1, weights |-> <<>>]

\* [err, out (the returned tuple, with the weight vector that scored it),
\*  preferences (the caller's dict afterwards)]
RecommendTrained(mdl, prefs, filters_in) ==
    LET filters == ResolvedFilters(mdl.features, filters_in)
        remaining_features == RemainingFeatures(mdl.features, filters_in)
        filtered == FilterCourses(mdl.courses, filters)
    IN  IF filtered.err # NoError
        THEN [err |-> filtered.err, out |-> NoReturn, preferences |-> prefs]
        ELSE
        LET ranked == RankCourses(mdl, filtered.val, prefs) IN
        IF ranked.err # NoError
        THEN [err |-> ranked.err, out |-> NoReturn,
              preferences |-> ranked.preferences]
        ELSE
        LET split == DecisionTreeSplit(ranked.val, remaining_features) IN
        IF split.err # NoError
        THEN [err |-> split.err, out |-> NoReturn,
              preferences |-> ranked.preferences]
        ELSE [err |-> NoError,
              out |-> [filters |-> filters,
                       remaining_features |-> remaining_features,
                       courses |-> ranked.val,
                       split_index |-> split.val,
                       weights |-> ranked.weights],
              preferences |-> ranked.preferences]

RecommendUnchecked(mdl, prefs, filters_in) ==
    RecommendTrained(mdl, prefs, filters_in)

\* if self.model is None: raise ValueError, before anything else
Recommend(mdl, prefs, filters_in) ==
    IF ~mdl.trained
    THEN [err |-> "ValueError", out |-> NoReturn, preferences |-> prefs]
    ELSE RecommendTrained(mdl, prefs, filters_in)

\* BaseRecommender.store_model: writes the file, or raises when model is None
StoreModel(mdl) == IF mdl.trained THEN NoError ELSE "ValueError"

(***************************************************************************)
(* TopicRecommender.train and TopicRecommender.recommend                   *)
(***************************************************************************)
\* [err, model]: S is the elementwise nanmax of the raw channels
TopicTrain(meta_categories, course_data, raw) ==
    LET S == Combine(raw.name, raw.tag, raw.cat) IN
    [err |-> NoError,
     model |-> [trained |-> TRUE,
                meta_categories |-> meta_categories,
                features |-> <<>>,
                courses |-> [i \in DOMAIN course_data |->
                    [course_id |-> course_data[i].course_id, Sim |-> S[i]]]]]

TopicRankedCourse(mdl, course, weights) ==
    LET ids == CourseIds(mdl.courses) IN
    IF course.course_id \notin Range(ids)
    THEN [course_id |-> course.course_id, score |-> Zero]
    ELSE [course_id |-> course.course_id,
          score |-> Dot(mdl.courses[IndexOf(ids, course.course_id)].Sim,
                        weights)]

\* [err, out, preferences (the caller's dict afterwards)]
TopicRecommend(mdl, course_data, prefs) ==
    IF ~mdl.trained
    THEN [err |-> "ValueError", out |-> NoReturn, preferences |-> prefs]
    ELSE
    LET norm == NormalizePreferences(prefs, mdl.meta_categories) IN
    IF norm.err # NoError
    THEN [err |-> norm.err, out |-> NoReturn, preferences |-> norm.preferences]
    ELSE [err |-> NoError,
          out |-> [NoReturn EXCEPT
                     !.courses = SortedByScore([i \in DOMAIN course_data |->
                        TopicRankedCourse(mdl, course_data[i], norm.weights)]),
                     !.weights = norm.weights],
          preferences |-> norm.preferences]

(***************************************************************************)
(* Inputs.                                                                 *)
(***************************************************************************)
Labels == {"IT", "Business"}
NoFilters == [given |-> FALSE, dict |-> <<>>]
NoEnrollment == [given |-> FALSE, ids |-> <<>>]

\* the sequences of at most n elements of S
SeqsUpTo(S, n) == UNION {[1..k -> S] : k \in 0..n}

NoRepeat(s) == \A i, k \in DOMAIN s : i # k => s[i] # s[k]

\* meta_categories: the labels in any order, without repetition
MetaLists == {m \in SeqsUpTo(Labels, Cardinality(Labels)) : m # <<>> /\ NoRepeat(m)}

\* preferences dicts over the given keys
PrefDicts(keys, weights) ==
    {p \in SeqsUpTo([key : keys, value : weights], Cardinality(keys)) :
        NoRepeat([i \in DOMAIN p |-> p[i].key])}

\* a course's 'attributes' entry: a dict, or no such entry
Attributes(dict) == [present |-> TRUE, dict |-> dict]
NoAttributes == [present |-> FALSE, dict |-> <<>>]

\* course_data: the courses are numbered in catalogue order
CourseData(attribute_choices, n) ==
    {[i \in 1..n |-> [course_id |-> i,
                       has_attributes |-> a[i].present,
                       attributes |-> a[i].dict]] :
        a \in [1..n -> attribute_choices]}

Catalogues(attribute_choices) ==
    UNION {CourseData(attribute_choices, n) : n \in 1..MaxCourses}

UnitRows(m) == {[k \in 1..m |-> IF k = j THEN One ELSE Zero] : j \in 1..m}
ZeroMatrix(n, m) == [i \in 1..n |-> [k \in 1..m |-> Zero]]

\* np.zeros for the category and tag channels (no course has categories or
\* tags), any of the given rows for each course in the name channel
NameOnlyRaw(n, m, rows) ==
    {[cat |-> ZeroMatrix(n, m), tag |-> ZeroMatrix(n, m), name |-> S] :
        S \in [1..n -> rows]}

Enrollments ==
    {NoEnrollment} \cup
    {[given |-> TRUE, ids |-> e] : e \in SeqsUpTo(1..MaxCourses, MaxEnrolments)}

(***************************************************************************)
(* Life of one recommender instance: train, recommend, store_model.        *)
(* preferences and applied_filters are the dict objects the caller passed  *)
(* to the latest recommend call and still holds. A run of recommend calls  *)
(* on the same dicts is ended by a store_model call: train and a recommend *)
(* call with newly built dicts come after a call that was no recommend.    *)
(***************************************************************************)
PBR == "PreferenceBasedRecommender"
TR == "TopicRecommender"

NoGiven == [preferences |-> <<>>, applied_filters |-> NoFilters]
NoCall == [op |-> "none", err |-> NoError, out |-> NoReturn, given |-> NoGiven]

LifeAttributes ==
    {Attributes([price |-> "free", type |-> "mooc"]),
     Attributes([type |-> "blended"]),
     NoAttributes}
LifeWeights == {Zero, Rat(4, 10000), Rat(1, 2)}
LifePreferences == PrefDicts(Labels, LifeWeights)
LifeFilters == {NoFilters, [given |-> TRUE, dict |-> [price |-> "free"]]}

Init ==
    /\ recommender \in {PBR, TR}
    /\ model = Untrained
    /\ preferences = <<>>
    /\ applied_filters = NoFilters
    /\ result = NoCall
    /\ prev = NoCall
    /\ arg = <<>>
    /\ ret = <<>>

\* the caller trains an instance until training succeeds, as testit.py does
TrainStep ==
    /\ recommender = PBR
    /\ ~model.trained
    /\ result.op # "recommend"
    /\ \E meta_categories \in MetaLists,
          course_data \in Catalogues(LifeAttributes),
          enrollment_data \in Enrollments :
         \E raw \in NameOnlyRaw(Len(course_data), Len(meta_categories),
                                 UnitRows(Len(meta_categories))) :
            LET t == Train(meta_categories, course_data, raw, enrollment_data) IN
            /\ model' = IF t.err = NoError THEN t.model ELSE model
            /\ result' = [NoCall EXCEPT !.op = "train", !.err = t.err]
    /\ preferences' = <<>>
    /\ applied_filters' = NoFilters
    /\ prev' = NoCall
    /\ UNCHANGED <<recommender, arg, ret>>

TopicTrainStep ==
    /\ recommender = TR
    /\ ~model.trained
    /\ result.op # "recommend"
    /\ \E meta_categories \in MetaLists,
          course_data \in Catalogues(LifeAttributes) :
         \E raw \in NameOnlyRaw(Len(course_data), Len(meta_categories),
                                 UnitRows(Len(meta_categories))) :
            LET t == TopicTrain(meta_categories, course_data, raw) IN
            /\ model' = t.model
            /\ result' = [NoCall EXCEPT !.op = "train", !.err = t.err]
    /\ preferences' = <<>>
    /\ applied_filters' = NoFilters
    /\ prev' = NoCall
    /\ UNCHANGED <<recommender, arg, ret>>

\* recommend(prefs, filters_in) on the instance, whatever it returns or raises
Call(prefs, filters_in) ==
    LET r == IF recommender = PBR
             THEN Recommend(model, prefs, filters_in)
             ELSE TopicRecommend(model, model.courses, prefs)
    IN  /\ preferences' = r.preferences
        /\ applied_filters' = filters_in
        /\ result' = [op |-> "recommend", err |-> r.err, out |-> r.out,
                      given |-> [preferences |-> prefs,
                                 applied_filters |-> filters_in]]

\* the caller builds the two dicts and calls recommend with them; the
\* queries that follow it reuse the dicts (RecommendAgainStep)
RecommendStep ==
    /\ result.op # "recommend"
    /\ \E prefs \in LifePreferences, filters_in \in LifeFilters :
          /\ recommender = TR => filters_in = NoFilters
          /\ Call(prefs, filters_in)
    /\ prev' = NoCall
    /\ UNCHANGED <<recommender, model, arg, ret>>

\* the caller calls recommend again with the dicts of the call before
RecommendAgainStep ==
    /\ result.op = "recommend"
    /\ Call(preferences, applied_filters)
    /\ prev' = result
    /\ UNCHANGED <<recommender, model, arg, ret>>

StoreModelStep ==
    /\ result' = [NoCall EXCEPT !.op = "store_model", !.err = StoreModel(model)]
    /\ preferences' = <<>>
    /\ applied_filters' = NoFilters
    /\ prev' = NoCall
    /\ UNCHANGED <<recommender, model, arg, ret>>

Next ==
    \/ TrainStep
    \/ TopicTrainStep
    \/ RecommendStep
    \/ RecommendAgainStep
    \/ StoreModelStep

Spec == Init /\ [][Next]_vars

(***************************************************************************)
(* Direct calls of the helper methods on drawn arguments.                  *)
(* arg holds the arguments, ret what the call returned or raised.          *)
(***************************************************************************)
NoRet ==
    [op |-> "none", err |-> NoError, val |-> <<>>, weights |-> <<>>,
     preferences |-> <<>>]

Idle ==
    /\ preferences = <<>>
    /\ applied_filters = NoFilters
    /\ result = NoCall
    /\ prev = NoCall
    /\ ret = NoRet

\* the features dicts of the items: both attributes, or the price missing
ItemFeatures ==
    [price : {"free", "paid"}, type : {"mooc", "blended"}] \cup
    {[type |-> "blended"]}

\* (attribute name, required value) pairs, the name or the value may be
\* unknown to every item
FilterPairs ==
    [name : {"price"}, value : {"free", "paid", "All"}] \cup
    [name : {"type"}, value : {"mooc", "blended"}]

FilterItems ==
    {[i \in DOMAIN f |-> [course_id |-> i, features |-> f[i]]] :
        f \in SeqsUpTo(ItemFeatures, MaxItems)}

InitFilter ==
    /\ Idle
    /\ recommender = PBR
    /\ model = Untrained
    /\ arg \in [courses : FilterItems, filters : SeqsUpTo(FilterPairs, 2)]

FilterStep ==
    /\ ret.op = "none"
    /\ LET r == FilterCourses(arg.courses, arg.filters) IN
       ret' = [NoRet EXCEPT !.op = "filter", !.err = r.err, !.val = r.val]
    /\ UNCHANGED <<recommender, model, preferences, applied_filters, result,
                   prev, arg>>

SpecFilter == InitFilter /\ [][FilterStep]_vars

\* the scores __rank_courses__ can attach: 0, a score below the 1e-3
\* threshold, ordinary scores; or NaN on every item (a model whose Sim
\* entries are all NaN)
ItemScores == {Zero, Rat(1, 2000), One, FromInt(3)}

Sorted(courses) ==
    \A i, k \in DOMAIN courses : i < k => ~FLt(courses[i].score, courses[k].score)

\* what __rank_courses__ hands to __decision_tree_split__: items in
\* descending order of score
ScoredItems ==
    {c \in {[i \in DOMAIN f |-> [course_id |-> i, features |-> f[i].features,
                                  score |-> f[i].score]] :
              f \in SeqsUpTo([features : ItemFeatures, score : ItemScores],
                             MaxItems)} : Sorted(c)}
    \cup
    {[i \in DOMAIN f |-> [course_id |-> i, features |-> f[i], score |-> NaN]] :
        f \in SeqsUpTo(ItemFeatures, MaxItems)}

\* remaining_features: schema attribute names, without repetition
CandidateLists == {r \in SeqsUpTo({"price", "type"}, 2) : NoRepeat(r)}

InitSplit ==
    /\ Idle
    /\ recommender = PBR
    /\ model = Untrained
    /\ arg \in [courses : ScoredItems, remaining_features : CandidateLists]

SplitStep ==
    /\ ret.op = "none"
    /\ LET r == DecisionTreeSplit(arg.courses, arg.remaining_features) IN
       ret' = [NoRet EXCEPT !.op = "split", !.err = r.err, !.val = r.val]
    /\ UNCHANGED <<recommender, model, preferences, applied_filters, result,
                   prev, arg>>

SpecSplit == InitSplit /\ [][SplitStep]_vars

\* __rank_courses__(courses, preferences) of a PreferenceBasedRecommender
RankStep ==
    /\ recommender = PBR
    /\ ret.op = "none"
    /\ LET r == RankCourses(model, arg.courses, arg.preferences) IN
       ret' = [op |-> "rank", err |-> r.err, val |-> r.val,
               weights |-> r.weights, preferences |-> r.preferences]
    /\ UNCHANGED <<recommender, model, preferences, applied_filters, result,
                   prev, arg>>

\* recommend(course_data, preferences) of a TopicRecommender
TopicStep ==
    /\ recommender = TR
    /\ ret.op = "none"
    /\ LET r == TopicRecommend(model, arg.courses, arg.preferences) IN
       ret' = [op |-> "topic", err |-> r.err, val |-> r.out.courses,
               weights |-> r.out.weights, preferences |-> r.preferences]
    /\ UNCHANGED <<recommender, model, preferences, applied_filters, result,
                   prev, arg>>

\* a trained model of either class: the TopicRecommender's has no features
\* and its courses hold course_id and Sim only
TrainedModel(class, meta_categories, courses) ==
    [trained |-> TRUE, meta_categories |-> meta_categories, features |-> <<>>,
     courses |-> IF class = PBR THEN courses
                 ELSE [i \in DOMAIN courses |->
                        [course_id |-> courses[i].course_id,
                         Sim |-> courses[i].Sim]]]

\* the items handed to the ranking: course_id and features (or attributes)
AsItems(courses) ==
    [i \in DOMAIN courses |->
        [course_id |-> courses[i].course_id, features |-> courses[i].features]]

(***************************************************************************)
(* Normalisation of many preferences dicts on a small model.               *)
(***************************************************************************)
NormWeights == {Zero, Rat(4, 10000), Rat(1, 5), Rat(3, 5)}
NormPreferences == PrefDicts(Labels \cup {"Sports"}, NormWeights)

NormCourses(m) ==
    {<<[course_id |-> 1, Sim |-> row, count |-> 0,
        features |-> [type |-> "mooc"]]>> : row \in UnitRows(m)}

InitNorm ==
    /\ Idle
    /\ recommender \in {PBR, TR}
    /\ \E meta_categories \in MetaLists :
         \E courses \in NormCourses(Len(meta_categories)) :
            /\ model = TrainedModel(recommender, meta_categories, courses)
            /\ arg \in [courses : {AsItems(courses)},
                         preferences : NormPreferences]

SpecNorm == InitNorm /\ [][RankStep \/ TopicStep]_vars

(***************************************************************************)
(* Ranking on many models with a few preferences dicts.                    *)
(***************************************************************************)
RankMeta == <<"IT", "Business">>

\* Sim rows: in [0,1] after train's rescaling; raw cosines in [-1,1] in a
\* TopicRecommender
SimRows(class) ==
    IF class = PBR
    THEN {<<Zero, Zero>>, <<One, Zero>>, <<Zero, One>>, <<Rat(1, 2), One>>}
    ELSE {<<Zero, Zero>>, <<One, Zero>>, <<FromInt(-1), One>>, <<Rat(1, 2), One>>}

NaNRow == <<NaN, NaN>>

RankCatalogues(class, n) ==
    {[i \in DOMAIN c |-> [course_id |-> i, Sim |-> c[i].Sim,
                          count |-> c[i].count, features |-> [type |-> "mooc"]]] :
        c \in SeqsUpTo([Sim : SimRows(class), count : 0..MaxEnrolments], n)}
    \cup
    {[i \in DOMAIN c |-> [course_id |-> i, Sim |-> NaNRow,
                          count |-> c[i], features |-> [type |-> "mooc"]]] :
        c \in IF class = PBR THEN SeqsUpTo(0..MaxEnrolments, n) ELSE {}}

RankPreferences ==
    {<<[key |-> "IT", value |-> Rat(1, 2)], [key |-> "Business", value |-> Rat(1, 2)]>>,
     <<[key |-> "Business", value |-> One], [key |-> "IT", value |-> Zero]>>,
     <<[key |-> "IT", value |-> Zero], [key |-> "Business", value |-> Zero]>>}

\* the caller's course_data of TopicRecommender.recommend: courses of the
\* model and one the model has not seen, in any order
TopicCourseData(n) ==
    {[i \in DOMAIN ids |-> [course_id |-> ids[i], features |-> <<>>]] :
        ids \in {s \in SeqsUpTo(1..(n + 1), MaxItems) : NoRepeat(s)}}

\* the courses handed to __rank_courses__: the model's own, as recommend
\* hands them over, or these with a course the model has not seen put
\* before or after them
WithUnknown(courses) ==
    LET unknown == [course_id |-> Len(courses) + 1,
                    features |-> [type |-> "mooc"]]
    IN  {AsItems(courses), <<unknown>> \o AsItems(courses),
         AsItems(courses) \o <<unknown>>}

InitRank ==
    /\ Idle
    /\ recommender \in {PBR, TR}
    /\ \E courses \in RankCatalogues(recommender,
                        IF recommender = PBR THEN MaxItems ELSE MaxCourses) :
          /\ model = TrainedModel(recommender, RankMeta, courses)
          /\ arg \in [courses : IF recommender = PBR THEN WithUnknown(courses)
                                 ELSE TopicCourseData(Len(courses)),
                       preferences : RankPreferences]

SpecRank == InitRank /\ [][RankStep \/ TopicStep]_vars

(***************************************************************************)
(* recommend on trained models with many active_filters dicts.             *)
(***************************************************************************)
QueryAttributes ==
    {Attributes([price |-> "free", type |-> "mooc"]),
     Attributes([price |-> "paid", type |-> "mooc"]),
     Attributes([type |-> "blended"])}

QueryNames == {"price", "type", "level"}
QueryValues == {"free", "mooc", "gold", "All"}

\* active_filters: None, or a dict over some of the names
QueryFilters ==
    {NoFilters} \cup
    {[given |-> TRUE, dict |-> d] :
        d \in UNION {[S -> QueryValues] : S \in SUBSET QueryNames}}

QueryPreferences ==
    {<<[key |-> "IT", value |-> Rat(1, 2)], [key |-> "Business", value |-> Rat(1, 2)]>>,
     <<[key |-> "Business", value |-> One], [key |-> "IT", value |-> Zero]>>}

\* the raw similarities: the name of course i is closest to label i (mod m)
QueryRaw(n, m) ==
    [cat |-> ZeroMatrix(n, m), tag |-> ZeroMatrix(n, m),
     name |-> [i \in 1..n |->
                [k \in 1..m |-> IF k = ((i - 1) % m) + 1 THEN One ELSE Zero]]]

InitQuery ==
    /\ Idle
    /\ recommender = PBR
    /\ \E course_data \in Catalogues(QueryAttributes) :
            /\ model = Train(RankMeta, course_data,
                             QueryRaw(Len(course_data), Len(RankMeta)),
                             NoEnrollment).model
            /\ arg \in [preferences : QueryPreferences,
                         applied_filters : QueryFilters]

\* recommend(preferences, active_filters) on the trained instance
QueryStep ==
    /\ ret.op = "none"
    /\ LET r == Recommend(model, arg.preferences, arg.applied_filters) IN
       ret' = [op |-> "recommend", err |-> r.err, val |-> r.out,
               weights |-> r.out.weights, preferences |-> r.preferences]
    /\ UNCHANGED <<recommender, model, preferences, applied_filters, result,
                   prev, arg>>

SpecQuery == InitQuery /\ [][QueryStep]_vars

(***************************************************************************)
(* Claims.                                                                 *)
(***************************************************************************)

\* every item holds the attribute and all items hold the same value of it
Uniform(courses, feature_name) ==
    /\ \A i \in DOMAIN courses : feature_name \in DOMAIN courses[i].features
    /\ \A i, k \in DOMAIN courses :
          courses[i].features[feature_name] = courses[k].features[feature_name]

\* C1: when every candidate attribute has one single value across all the
\* items, __decision_tree_split__ returns -1, "no further split", also when
\* the total score is at least 1e-3.
C1_UniformNoSplit ==
    (/\ ret.op = "split"
     /\ \A j \in DOMAIN arg.remaining_features :
           Uniform(arg.courses, arg.remaining_features[j]))
    => (ret.err = NoError /\ ret.val = -1)

\* an item matches a list of pairs when it holds the required value of every
\* pair
MatchesAll(course, filters) ==
    \A k \in DOMAIN filters :
        /\ filters[k].name \in DOMAIN course.features
        /\ course.features[filters[k].name] = filters[k].value

\* C6: whenever __filter_courses__ returns, it returns exactly the items that
\* hold the required value of every pair, in their original order and each
\* once; with no pair it returns its input.
C6_FilterIsConjunction ==
    (ret.op = "filter" /\ ret.err = NoError) =>
        /\ ret.val = SelectSeq(arg.courses,
                               LAMBDA course : MatchesAll(course, arg.filters))
        /\ arg.filters = <<>> => ret.val = arg.courses

\* C6 witness: two pairs were applied, the second one removed an item the
\* first one kept, and an item is left
C6_Witness ==
    /\ ret.op = "filter"
    /\ ret.err = NoError
    /\ Len(arg.filters) = 2
    /\ ret.val # <<>>
    /\ Len(ret.val) < Len(KeepMatching(arg.courses, arg.filters[1]))

\* C2: when the weights of a preferences dict over the meta categories sum to
\* less than 1e-3, every entry of the weight vector that scores the courses
\* is 1/num_categories.
C2_UniformFallback ==
    (/\ ret.op \in {"rank", "topic"}
     /\ ret.err = NoError
     /\ PrefKeys(arg.preferences) = Range(model.meta_categories)
     /\ FLt(FSum(PrefValues(arg.preferences)), Epsilon))
    => \A i \in DOMAIN ret.weights :
          ret.weights[i] = Rat(1, Len(model.meta_categories))

\* C3: a recommend call that repeats the call before it, with the same two
\* dicts, raises or returns what that call raised or returned: the same
\* filters, remaining features, ranked courses with their scores, and split
\* index.
C3_RepeatedRecommend ==
    (prev.op = "recommend" /\ result.op = "recommend")
    => /\ result.err = prev.err
       /\ result.out.filters = prev.out.filters
       /\ result.out.remaining_features = prev.out.remaining_features
       /\ result.out.courses = prev.out.courses
       /\ result.out.split_index = prev.out.split_index

\* C4: a recommend call leaves the model, the caller's preferences dict and
\* the caller's active_filters dict as they were handed to it.
C4_NoSideEffect ==
    [][result'.op = "recommend"
       => /\ model' = model
          /\ preferences' = result'.given.preferences
          /\ applied_filters' = result'.given.applied_filters]_vars

\* C5: when the weights of a preferences dict sum to at least 1e-3, the
\* weight vector that scores the courses sums to 1 and its i-th entry is the
\* weight of the i-th meta category divided by the sum, whatever the order of
\* the dict's keys.
C5_NormalisedInOrder ==
    LET total == FSum(PrefValues(arg.preferences)) IN
    (/\ ret.op \in {"rank", "topic"}
     /\ ret.err = NoError
     /\ ~FLt(total, Epsilon))
    => /\ FSum(ret.weights) = One
       /\ \A i \in DOMAIN model.meta_categories :
             ret.weights[i] =
                FDiv(Lookup(arg.preferences, model.meta_categories[i]), total)

\* the applied filter on this name is one the schema knows by name and value
Recognized(name) ==
    \E i \in DOMAIN model.features :
       /\ model.features[i].name = name
       /\ arg.applied_filters.dict[name] \in Range(model.features[i].values)

\* every schema attribute whose applied value the schema lists is in the
\* filters recommend returns, with that value
RecognizedAreApplied ==
    \A i \in DOMAIN model.features :
       LET name == model.features[i].name IN
       (name \in DOMAIN arg.applied_filters.dict /\ Recognized(name))
       => [name |-> name, value |-> arg.applied_filters.dict[name]]
             \in Range(ret.val.filters)

\* C7 (as stated): recommend applies the filters on schema attributes whose
\* value the schema lists, and every other applied filter, of an unknown
\* value or of an unknown attribute name, is not applied and its name is in
\* the remaining features.
C7_UnrecognizedToRemaining ==
    (ret.op = "recommend" /\ ret.err = NoError /\ arg.applied_filters.given)
    => /\ RecognizedAreApplied
       /\ \A name \in DOMAIN arg.applied_filters.dict :
             ~Recognized(name)
             => /\ name \notin Range(FeatureNames(ret.val.filters))
                /\ name \in Range(ret.val.remaining_features)

\* C7 (amended): recommend applies the filters on schema attributes whose
\* value the schema lists; an applied filter of an unlisted value on a schema
\* attribute is not applied and its name is in the remaining features; an
\* applied filter on a name the schema does not have is not applied and is
\* in neither list.
C7_UnknownNameDropped ==
    (ret.op = "recommend" /\ ret.err = NoError /\ arg.applied_filters.given)
    => /\ RecognizedAreApplied
       /\ \A name \in DOMAIN arg.applied_filters.dict :
             ~Recognized(name)
             => /\ name \notin Range(FeatureNames(ret.val.filters))
                /\ name \in Range(ret.val.remaining_features)
                      <=> name \in Range(FeatureNames(model.features))

C7_Witness ==
    /\ ret.op = "recommend"
    /\ ret.err = NoError
    /\ arg.applied_filters.given
    /\ DOMAIN arg.applied_filters.dict = {"price", "type", "level"}
    /\ arg.applied_filters.dict["price"] = "gold"
    /\ ret.val.filters = <<[name |-> "type", value |-> "mooc"]>>
    /\ ret.val.remaining_features = <<"price">>
    /\ ret.val.courses # <<>>

\* C8: the courses a ranking returns are the courses it was given, each
\* once; no course comes after one of a lower score; courses of equal score
\* are in the order they were given in.
C8_StableDescending ==
    (ret.op \in {"rank", "topic"} /\ ret.err = NoError)
    => LET given == CourseIds(arg.courses)
           ranked == ret.val
       IN  /\ Len(ranked) = Len(given)
           /\ \A i \in DOMAIN given :
                 \E k \in DOMAIN ranked :
                    /\ ranked[k].course_id = given[i]
                    /\ ret.op = "rank"
                          => ranked[k].features = arg.courses[i].features
           /\ \A k, l \in DOMAIN ranked :
                 k < l => /\ ~FLt(ranked[k].score, ranked[l].score)
                          /\ ranked[k].score = ranked[l].score
                                => IndexOf(given, ranked[k].course_id)
                                     < IndexOf(given, ranked[l].course_id)

C8_Witness ==
    /\ ret.op = "rank"
    /\ ret.err = NoError
    /\ Len(ret.val) = 3
    /\ ret.val[1].course_id = 3
    /\ FLt(ret.val[2].score, ret.val[1].score)
    /\ ret.val[2].score = ret.val[3].score
    /\ ret.val[2].score # Zero

\* C9: a recommend or store_model call on an instance that has not been
\* trained raises ValueError and returns nothing, and the instance is
\* untrained after it.
C9_UntrainedCallFails ==
    [][(~model.trained /\ result'.op \in {"recommend", "store_model"})
       => /\ result'.err = "ValueError"
          /\ result'.out = NoReturn
          /\ ~model'.trained]_vars

C9_Witness ==
    /\ ~model.trained
    /\ result.op = "recommend"
    /\ result.err = "ValueError"
    /\ result.given.preferences # <<>>
    /\ prev.op = "recommend"

\* C10: a ranking raises an error, and ranks nothing, when the preferences
\* dict has a key that is no meta category or lacks a meta category.
C10_ConfigurationError ==
    (/\ ret.op \in {"rank", "topic"}
     /\ PrefKeys(arg.preferences) # Range(model.meta_categories))
    => ret.err # NoError

\* every course of the model holds every attribute of the schema
CompleteAttributes ==
    \A i \in DOMAIN model.courses : \A f \in DOMAIN model.features :
       model.features[f].name \in DOMAIN model.courses[i].features

\* C11: a recommend call on a trained instance whose courses hold every
\* schema attribute, without filters, whose preferences dict is empty or
\* holds every meta category and nothing else, with weights summing to less
\* than 1e-3, raises nothing.
C11_EdgeCasesNeverRaise ==
    (/\ result.op = "recommend"
     /\ model.trained
     /\ CompleteAttributes
     /\ ~result.given.applied_filters.given
     /\ \/ result.given.preferences = <<>>
        \/ PrefKeys(result.given.preferences) = Range(model.meta_categories)
     /\ FLt(FSum(PrefValues(result.given.preferences)), Epsilon))
    => result.err = NoError

\* the course ranked k-th is one the model has not seen
UnknownAt(k) == ret.val[k].course_id \notin Range(CourseIds(model.courses))

\* C12: a ranking raises nothing, gives every course the model has not seen
\* sim 0 and score 0, and returns every such course after every course the
\* model has seen.
C12_UnknownSortLast ==
    ret.op \in {"rank", "topic"}
    => /\ ret.err = NoError
       /\ \A k \in DOMAIN ret.val :
             UnknownAt(k)
             => /\ ret.val[k].score = Zero
                /\ ret.op = "rank" => ret.val[k].sim = Zero
                /\ \A l \in DOMAIN ret.val : ~UnknownAt(l) => l < k

\* C13: when the scores of the courses sum to less than 1e-3 (no course at
\* all included), __decision_tree_split__ returns -1 whatever the candidate
\* features are, and looks at no feature of any course.
C13_LowTotalNoSplit ==
    (ret.op = "split" /\ FLt(FSum(Scores(arg.courses)), Epsilon))
    => ret.err = NoError /\ ret.val = -1

C13_Witness ==
    /\ ret.op = "split"
    /\ ret.err = NoError
    /\ ret.val = -1
    /\ Len(arg.courses) = 2
    /\ FSum(Scores(arg.courses)) = Rat(1, 2000)
    /\ arg.remaining_features = <<"type", "price">>
    /\ "price" \notin DOMAIN arg.courses[2].features

\* two calls of __filter_courses__ end alike: both raise the same error, or
\* both return the same courses in the same order
SameOutcome(x, y) ==
    /\ x.err = y.err
    /\ x.err = NoError => CourseIds(x.val) = CourseIds(y.val)

\* filtering by the first pair, then filtering what that returns by both
FirstThenBoth(courses, filters) ==
    LET first == FilterCourses(courses, <<filters[1]>>) IN
    IF first.err # NoError THEN first
    ELSE FilterCourses(first.val, filters)

\* C14: for two filter pairs, filtering by the first pair and then by both
\* ends as filtering once by both does, and filtering by the pairs in the
\* other order ends as filtering by them in the given order does.
C14_FilterComposesCommutes ==
    (ret.op = "filter" /\ Len(arg.filters) = 2)
    => /\ SameOutcome(FirstThenBoth(arg.courses, arg.filters), ret)
       /\ SameOutcome(FilterCourses(arg.courses,
                                    <<arg.filters[2], arg.filters[1]>>), ret)

\* the courses of the split call that hold this price
Priced(value) ==
    {i \in DOMAIN arg.courses : arg.courses[i].features["price"] = value}

\* every course has a price and a type, some are free and some are paid, and
\* every free course has a higher score than every paid course
FullySeparated ==
    /\ \A i \in DOMAIN arg.courses :
          {"price", "type"} \subseteq DOMAIN arg.courses[i].features
    /\ Priced("free") # {}
    /\ Priced("paid") # {}
    /\ \A i \in Priced("free"), k \in Priced("paid") :
          FGt(arg.courses[i].score, arg.courses[k].score)

\* the courses are of more than one type, and some type holds a free
\* (high-score) and a paid (low-score) course
TypeScrambled ==
    /\ \E i, k \in DOMAIN arg.courses :
          arg.courses[i].features["type"] # arg.courses[k].features["type"]
    /\ \E i \in Priced("free"), k \in Priced("paid") :
          arg.courses[i].features["type"] = arg.courses[k].features["type"]

\* the free courses share one score and the paid courses share one score
TwoLevels ==
    \A value \in {"free", "paid"} : \A i, k \in Priced(value) :
       arg.courses[i].score = arg.courses[k].score

\* the split call is the scenario: separated by price, scrambled by type,
\* both are candidates, and the total score is not below 1e-3
SeparatedScenario ==
    /\ ret.op = "split"
    /\ Len(arg.remaining_features) = 2
    /\ FullySeparated
    /\ TypeScrambled
    /\ ~FLt(FSum(Scores(arg.courses)), Epsilon)

PriceIndex == IndexOf(arg.remaining_features, "price") - 1

\* C15 (as stated): when price puts all high-score courses under free and
\* all low-score courses under paid, the loss of price is 0 and the split
\* returns the index of price, not that of the scrambled type.
C15_SeparatedPriceChosen ==
    SeparatedScenario
    => /\ Loss(arg.courses, "price", FSum(Scores(arg.courses))) = Zero
       /\ ret.val = PriceIndex

\* C15 (amended): when moreover the free courses share one score and the
\* paid courses share one score, the loss of price is 0; the split returns
\* the index of price when the paid score is above 0 or price is the first
\* candidate, and otherwise the index of type, whose loss is 0 as well.
C15_TwoLevelPriceChosen ==
    (SeparatedScenario /\ TwoLevels)
    => /\ Loss(arg.courses, "price", FSum(Scores(arg.courses))) = Zero
       /\ IF \/ PriceIndex = 0
             \/ \E k \in Priced("paid") : FGt(arg.courses[k].score, Zero)
          THEN ret.val = PriceIndex
          ELSE ret.val = 0

C15_Witness ==
    /\ SeparatedScenario
    /\ TwoLevels
    /\ Len(arg.courses) = 3
    /\ arg.remaining_features = <<"type", "price">>
    /\ \E k \in Priced("paid") : FGt(arg.courses[k].score, Zero)
    /\ ret.val = 1

\* the courses of the split call take at least two values of the feature
NonTrivial(feature_name) ==
    \E i, k \in DOMAIN arg.courses :
       arg.courses[i].features[feature_name]
          # arg.courses[k].features[feature_name]

\* loss(a) of the j-th candidate (1-based) of the split call
CandidateLoss(j) ==
    Loss(arg.courses, arg.remaining_features[j], FSum(Scores(arg.courses)))

\* every course of the split call holds every candidate feature
CandidatesPresent ==
    \A i \in DOMAIN arg.courses :
       Range(arg.remaining_features) \subseteq DOMAIN arg.courses[i].features

\* C16: when the total score is a number not below 1e-3, an index returned
\* by __decision_tree_split__ is that of a candidate dividing the courses
\* into at least two groups, whose loss no such candidate undercuts and
\* every earlier such candidate exceeds.
C16_EarliestMinimalNonTrivial ==
    (/\ ret.op = "split"
     /\ ret.err = NoError
     /\ CandidatesPresent
     /\ IsNum(FSum(Scores(arg.courses)))
     /\ ~FLt(FSum(Scores(arg.courses)), Epsilon)
     /\ ret.val # -1)
    => LET chosen == ret.val + 1
           nontrivial == {j \in DOMAIN arg.remaining_features :
                            NonTrivial(arg.remaining_features[j])}
       IN  /\ chosen \in nontrivial
           /\ \A j \in nontrivial :
                 /\ ~FLt(CandidateLoss(j), CandidateLoss(chosen))
                 /\ j < chosen => FLt(CandidateLoss(chosen), CandidateLoss(j))

\* C17: every entry of every Sim vector that train of a
\* PreferenceBasedRecommender stored is a number from 0 to 1.
C17_SimInUnitInterval ==
    (recommender = PBR /\ model.trained)
    => \A i \in DOMAIN model.courses : \A k \in DOMAIN model.courses[i].Sim :
          LET sim == model.courses[i].Sim[k] IN
          /\ IsNum(sim)
          /\ ~FLt(sim, Zero)
          /\ ~FLt(One, sim)

\* C18: the split_index a recommend call returns is -1 or an index (from 0)
\* into the remaining features it returns, none of which is the name of a
\* filter it returns; it is -1 when there are no remaining features or no
\* ranked courses.
C18_SplitIndexInRange ==
    (ret.op = "recommend" /\ ret.err = NoError)
    => /\ \/ ret.val.split_index = -1
          \/ ret.val.split_index \in 0..(Len(ret.val.remaining_features) - 1)
       /\ Range(ret.val.remaining_features)
             \cap Range(FeatureNames(ret.val.filters)) = {}
       /\ (ret.val.remaining_features = <<>> \/ ret.val.courses = <<>>)
             => ret.val.split_index = -1

C18_Witness ==
    /\ ret.op = "recommend"
    /\ ret.err = NoError
    /\ ret.val.filters = <<[name |-> "type", value |-> "mooc"]>>
    /\ ret.val.remaining_features = <<"price">>
    /\ Len(ret.val.courses) = 2
    /\ ret.val.split_index = 0

\* C19: an applied filter of value 'All' on a schema attribute is among the
\* filters a recommend call returns, its attribute is not among the
\* remaining features, and every ranked course holds the value 'All' for
\* it: no course of the catalogue does, and none is ranked.
C19_AllIsLiteral ==
    (ret.op = "recommend" /\ ret.err = NoError /\ arg.applied_filters.given)
    => \A name \in DOMAIN arg.applied_filters.dict :
          (/\ name \in Range(FeatureNames(model.features))
           /\ arg.applied_filters.dict[name] = "All")
          => /\ [name |-> name, value |-> "All"] \in Range(ret.val.filters)
             /\ name \notin Range(ret.val.remaining_features)
             /\ \A k \in DOMAIN ret.val.courses :
                   ret.val.courses[k].features[name] = "All"
             /\ ret.val.courses = <<>>

C19_Witness ==
    /\ ret.op = "recommend"
    /\ ret.err = NoError
    /\ arg.applied_filters.given
    /\ DOMAIN arg.applied_filters.dict = {"price"}
    /\ arg.applied_filters.dict["price"] = "All"
    /\ Len(model.courses) = 2
    /\ ret.val.filters = <<[name |-> "price", value |-> "All"]>>
    /\ ret.val.remaining_features = <<"type">>
    /\ ret.val.courses = <<>>
====
